---- MODULE Spec2Model ----
(***************************************************************************)
(* Ring-buffer queue of jhutson/queue (queue.go): one ringBufferQueue      *)
(* value, built by one of the two constructors, driven by arbitrary calls  *)
(* of Push, Pop, Peek and Length.  Go slices are modelled as sequences:    *)
(* Go index i is sequence position i+1.                                    *)
(***************************************************************************)
EXTENDS Integers, Sequences, FiniteSets, TLC

\* ---- bounds of the model ------------------------------------------------
MaxItem == 1          \* elements are the ints 0..MaxItem (0 is the zero value)
MaxInitCap == 3       \* constructors are called with a capacity in 0..MaxInitCap
MaxPush == 5          \* at most MaxPush successful Pushes per behaviour

Element == 0..MaxItem

\* ---- program constants ----------------------------------------------------
defaultRingBufferQueueCapacity == 2

ErrNil == "nil"
ErrQueueEmpty == "cannot take element from empty queue"
ErrQueueFull == "queue is full and cannot accept more elements"

\* zero value of the element type (var item Element)
ZeroElement == 0

VARIABLES
  q,         \* the ringBufferQueue struct: items, front, length, bounded
  reqCap,    \* capacity argument the constructor was called with
  panicked,  \* a run-time panic (index or slice out of range) happened
  pushed,    \* items of the Pushes that returned nil, in call order
  popped,    \* items returned by the Pops that returned nil, in call order
  mixed,     \* a Push succeeded after some Pop had succeeded
  last,      \* the most recent call: op, arg, val, err and the struct before it
  prev,      \* the call before the most recent one
  twin,      \* a queue of the other variant built with the same capacity argument
  twinLast,  \* the most recent call on twin
  synced     \* no Push has been issued yet with length = capacity

twinVars == <<twin, twinLast, synced>>

vars == <<q, reqCap, panicked, pushed, popped, mixed, last, prev, twin, twinLast, synced>>

\* ---- Go built-ins -----------------------------------------------------------
Min(a, b) == IF a <= b THEN a ELSE b

\* make([]Element, n): n zero-valued slots
make(n) == [i \in 1..n |-> ZeroElement]

\* cap(s) of a slice made by make([]Element, n) and never re-sliced
cap(s) == Len(s)

\* s[lo:hi] is legal iff 0 <= lo <= hi <= cap(s)
SliceOK(s, lo, hi) == 0 <= lo /\ lo <= hi /\ hi <= cap(s)

\* s[lo:hi]
Slice(s, lo, hi) == SubSeq(s, lo + 1, hi)

\* number of elements copy(dst[off:], src) copies
copyCount(dst, off, src) == Min(Len(dst) - off, Len(src))

\* dst after copy(dst[off:], src)
copy(dst, off, src) ==
  [i \in 1..Len(dst) |->
     IF i > off /\ i <= off + copyCount(dst, off, src) THEN src[i - off] ELSE dst[i]]

\* ---- constructors -------------------------------------------------------------
\* newBoundedRingBufferQueue without the default for capacity 0
newBoundedNoDefault(capacity) ==
  [items |-> make(capacity), front |-> 0, length |-> 0, bounded |-> TRUE]

newBoundedRingBufferQueue(capacity) ==
  LET c == IF capacity = 0 THEN defaultRingBufferQueueCapacity ELSE capacity
  IN  [items |-> make(c), front |-> 0, length |-> 0, bounded |-> TRUE]

\* newUnboundedRingBufferQueue that ignores its argument and uses the default
newUnboundedAlwaysDefault(initialCapacity) ==
  [items |-> make(defaultRingBufferQueueCapacity), front |-> 0, length |-> 0,
   bounded |-> FALSE]

newUnboundedRingBufferQueue(initialCapacity) ==
  LET c == IF initialCapacity = 0 THEN defaultRingBufferQueueCapacity ELSE initialCapacity
  IN  [items |-> make(c), front |-> 0, length |-> 0, bounded |-> FALSE]

\* ---- methods, as functions from the struct to the struct and the results ------
\* expand with the second copy (the head segment items[0:front]) left out
expandNoSplit(s) ==
  IF s.length < cap(s.items)
  THEN [q |-> s, panic |-> FALSE]
  ELSE IF ~SliceOK(s.items, s.front, s.length)
  THEN [q |-> s, panic |-> TRUE]
  ELSE LET newItems == make(cap(s.items) * 2)
           tail == Slice(s.items, s.front, s.length)
       IN  [q |-> [s EXCEPT !.items = copy(newItems, 0, tail), !.front = 0],
            panic |-> FALSE]

\* expand growing by a fixed increment of two slots instead of doubling
expandPlusTwo(s) ==
  IF s.length < cap(s.items)
  THEN [q |-> s, panic |-> FALSE]
  ELSE IF ~SliceOK(s.items, s.front, s.length)
  THEN [q |-> s, panic |-> TRUE]
  ELSE LET newItems == make(cap(s.items) + 2)
           tail == Slice(s.items, s.front, s.length)
           afterTail == copy(newItems, 0, tail)
           afterHead == IF s.front > 0
                        THEN copy(afterTail, Len(tail), Slice(s.items, 0, s.front))
                        ELSE afterTail
       IN  [q |-> [s EXCEPT !.items = afterHead, !.front = 0], panic |-> FALSE]

\* expand that does not reset front to 0
expandKeepFront(s) ==
  IF s.length < cap(s.items)
  THEN [q |-> s, panic |-> FALSE]
  ELSE IF ~SliceOK(s.items, s.front, s.length)
  THEN [q |-> s, panic |-> TRUE]
  ELSE LET newItems == make(cap(s.items) * 2)
           tail == Slice(s.items, s.front, s.length)
           afterTail == copy(newItems, 0, tail)
           afterHead == IF s.front > 0
                        THEN copy(afterTail, Len(tail), Slice(s.items, 0, s.front))
                        ELSE afterTail
       IN  [q |-> [s EXCEPT !.items = afterHead], panic |-> FALSE]

\* expand that copies the head segment items[0:front] first and the tail after it
expandHeadFirst(s) ==
  IF s.length < cap(s.items)
  THEN [q |-> s, panic |-> FALSE]
  ELSE IF ~SliceOK(s.items, s.front, s.length)
  THEN [q |-> s, panic |-> TRUE]
  ELSE LET newItems == make(cap(s.items) * 2)
           head == Slice(s.items, 0, s.front)
           afterHead == copy(newItems, 0, head)
           afterTail == copy(afterHead, Len(head), Slice(s.items, s.front, s.length))
       IN  [q |-> [s EXCEPT !.items = afterTail, !.front = 0], panic |-> FALSE]

\* expand: result struct and whether the slice expression panicked
expand(s) ==
  IF s.length < cap(s.items)
  THEN [q |-> s, panic |-> FALSE]
  ELSE IF ~SliceOK(s.items, s.front, s.length)
  THEN [q |-> s, panic |-> TRUE]
  ELSE LET newCapacity == cap(s.items) * 2
           newItems == make(newCapacity)
           tail == Slice(s.items, s.front, s.length)
           n == copyCount(newItems, 0, tail)
           afterTail == copy(newItems, 0, tail)
           afterHead == IF s.front > 0
                        THEN copy(afterTail, n, Slice(s.items, 0, s.front))
                        ELSE afterTail
       IN  [q |-> [s EXCEPT !.items = afterHead, !.front = 0], panic |-> FALSE]

\* Push that grows a full queue whatever its bounded flag
PushIgnoreBounded(s, item) ==
  LET e == IF s.length = cap(s.items) THEN expand(s) ELSE [q |-> s, panic |-> FALSE]
      g == e.q
      back == (g.front + g.length) % cap(g.items)
  IN  IF e.panic \/ back < 0 \/ back >= Len(g.items)
      THEN [q |-> g, err |-> ErrNil, panic |-> TRUE]
      ELSE [q |-> [g EXCEPT !.items[back + 1] = item, !.length = g.length + 1],
            err |-> ErrNil, panic |-> FALSE]

\* Push that rejects on a full queue whatever its bounded flag
PushAlwaysBounded(s, item) ==
  IF s.length = cap(s.items)
  THEN [q |-> s, err |-> ErrQueueFull, panic |-> FALSE]
  ELSE LET back == (s.front + s.length) % cap(s.items)
       IN  [q |-> [s EXCEPT !.items[back + 1] = item, !.length = s.length + 1],
            err |-> ErrNil, panic |-> FALSE]

\* Push computing back from the length alone, without front
PushBackNoFront(s, item) ==
  IF s.length = cap(s.items) /\ s.bounded
  THEN [q |-> s, err |-> ErrQueueFull, panic |-> FALSE]
  ELSE LET e == IF s.length = cap(s.items) THEN expand(s) ELSE [q |-> s, panic |-> FALSE]
           g == e.q
           back == g.length % cap(g.items)
       IN  IF e.panic
           THEN [q |-> g, err |-> ErrNil, panic |-> TRUE]
           ELSE [q |-> [g EXCEPT !.items[back + 1] = item, !.length = g.length + 1],
                 err |-> ErrNil, panic |-> FALSE]

\* Push that rejects a bounded queue one element early
PushFullOffByOne(s, item) ==
  IF s.length >= cap(s.items) - 1 /\ s.bounded
  THEN [q |-> s, err |-> ErrQueueFull, panic |-> FALSE]
  ELSE LET e == IF s.length = cap(s.items) THEN expand(s) ELSE [q |-> s, panic |-> FALSE]
           g == e.q
           back == (g.front + g.length) % cap(g.items)
       IN  IF e.panic \/ back < 0 \/ back >= Len(g.items)
           THEN [q |-> g, err |-> ErrNil, panic |-> TRUE]
           ELSE [q |-> [g EXCEPT !.items[back + 1] = item, !.length = g.length + 1],
                 err |-> ErrNil, panic |-> FALSE]

\* Push that never calls expand
PushNoExpand(s, item) ==
  IF s.length = cap(s.items) /\ s.bounded
  THEN [q |-> s, err |-> ErrQueueFull, panic |-> FALSE]
  ELSE LET back == (s.front + s.length) % cap(s.items)
       IN  [q |-> [s EXCEPT !.items[back + 1] = item, !.length = s.length + 1],
            err |-> ErrNil, panic |-> FALSE]

\* Push that grows an unbounded queue as soon as the write fills it
PushGrowEarly(s, item) ==
  IF s.length = cap(s.items) /\ s.bounded
  THEN [q |-> s, err |-> ErrQueueFull, panic |-> FALSE]
  ELSE LET e == IF s.length = cap(s.items) THEN expand(s) ELSE [q |-> s, panic |-> FALSE]
           g == e.q
           back == (g.front + g.length) % cap(g.items)
           w == [g EXCEPT !.items[back + 1] = item, !.length = g.length + 1]
       IN  IF e.panic \/ back < 0 \/ back >= Len(g.items)
           THEN [q |-> g, err |-> ErrNil, panic |-> TRUE]
           ELSE [q |-> IF ~w.bounded THEN expand(w).q ELSE w,
                 err |-> ErrNil, panic |-> FALSE]

Push(s, item) ==
  IF s.length = cap(s.items) /\ s.bounded
  THEN [q |-> s, err |-> ErrQueueFull, panic |-> FALSE]
  ELSE LET e == IF s.length = cap(s.items) THEN expand(s) ELSE [q |-> s, panic |-> FALSE]
           g == e.q
           back == (g.front + g.length) % cap(g.items)
       IN  IF e.panic \/ back < 0 \/ back >= Len(g.items)
           THEN [q |-> g, err |-> ErrNil, panic |-> TRUE]
           ELSE [q |-> [g EXCEPT !.items[back + 1] = item, !.length = g.length + 1],
                 err |-> ErrNil, panic |-> FALSE]

\* Peek without the emptiness check
PeekNoEmptyCheck(s) ==
  IF s.front < 0 \/ s.front >= Len(s.items)
  THEN [item |-> ZeroElement, err |-> ErrNil, panic |-> TRUE]
  ELSE [item |-> s.items[s.front + 1], err |-> ErrNil, panic |-> FALSE]

\* Peek that returns the slot at front alongside ErrQueueEmpty
PeekStaleOnEmpty(s) ==
  IF s.front < 0 \/ s.front >= Len(s.items)
  THEN [item |-> ZeroElement, err |-> ErrNil, panic |-> TRUE]
  ELSE [item |-> s.items[s.front + 1],
        err |-> IF s.length = 0 THEN ErrQueueEmpty ELSE ErrNil, panic |-> FALSE]

\* Peek that returns the newest live element instead of the oldest
PeekBack(s) ==
  IF s.length = 0
  THEN [item |-> ZeroElement, err |-> ErrQueueEmpty, panic |-> FALSE]
  ELSE [item |-> s.items[((s.front + s.length - 1) % cap(s.items)) + 1],
        err |-> ErrNil, panic |-> FALSE]

Peek(s) ==
  IF s.length = 0
  THEN [item |-> ZeroElement, err |-> ErrQueueEmpty, panic |-> FALSE]
  ELSE IF s.front < 0 \/ s.front >= Len(s.items)
  THEN [item |-> ZeroElement, err |-> ErrNil, panic |-> TRUE]
  ELSE [item |-> s.items[s.front + 1], err |-> ErrNil, panic |-> FALSE]

\* Pop that does not advance front
PopNoAdvance(s) ==
  LET p == Peek(s)
  IN  IF p.err # ErrNil \/ p.panic
      THEN [q |-> s, item |-> p.item, err |-> p.err, panic |-> p.panic]
      ELSE [q |-> [s EXCEPT !.length = s.length - 1],
            item |-> p.item, err |-> ErrNil, panic |-> FALSE]

\* Pop that does not decrement length
PopNoDec(s) ==
  LET p == Peek(s)
  IN  IF p.err # ErrNil \/ p.panic
      THEN [q |-> s, item |-> p.item, err |-> p.err, panic |-> p.panic]
      ELSE [q |-> [s EXCEPT !.front = (s.front + 1) % cap(s.items)],
            item |-> p.item, err |-> ErrNil, panic |-> FALSE]

\* Pop that advances front without wrapping it around
PopNoWrap(s) ==
  LET p == Peek(s)
  IN  IF p.err # ErrNil \/ p.panic
      THEN [q |-> s, item |-> p.item, err |-> p.err, panic |-> p.panic]
      ELSE [q |-> [s EXCEPT !.front = s.front + 1, !.length = s.length - 1],
            item |-> p.item, err |-> ErrNil, panic |-> FALSE]

\* Pop that advances front before reading the element
PopAdvanceFirst(s) ==
  LET p == Peek(s)
      nf == (s.front + 1) % cap(s.items)
  IN  IF p.err # ErrNil \/ p.panic
      THEN [q |-> s, item |-> p.item, err |-> p.err, panic |-> p.panic]
      ELSE [q |-> [s EXCEPT !.front = nf, !.length = s.length - 1],
            item |-> s.items[nf + 1], err |-> ErrNil, panic |-> FALSE]

\* Pop that wraps front one slot too late
PopWrapOffByOne(s) ==
  LET p == Peek(s)
  IN  IF p.err # ErrNil \/ p.panic
      THEN [q |-> s, item |-> p.item, err |-> p.err, panic |-> p.panic]
      ELSE [q |-> [s EXCEPT !.front = (s.front + 1) % (cap(s.items) + 1),
                            !.length = s.length - 1],
            item |-> p.item, err |-> ErrNil, panic |-> FALSE]

Pop(s) ==
  LET p == Peek(s)
  IN  IF p.err # ErrNil \/ p.panic
      THEN [q |-> s, item |-> p.item, err |-> p.err, panic |-> p.panic]
      ELSE [q |-> [s EXCEPT !.front = (s.front + 1) % cap(s.items),
                            !.length = s.length - 1],
            item |-> p.item, err |-> ErrNil, panic |-> FALSE]

Length(s) == s.length

\* ---- the call log ---------------------------------------------------------------
\* one call of the Queue interface: arg is Push's argument, val the returned
\* element (Pop, Peek) or int (Length), pre the struct when the call started
Call(op, arg, val, err, pre) ==
  [op |-> op, arg |-> arg, val |-> val, err |-> err, pre |-> pre]

NoCall(s) == Call("none", ZeroElement, ZeroElement, ErrNil, s)

\* ---- the state machine ---------------------------------------------------------
Init ==
  /\ reqCap \in 0..MaxInitCap
  /\ \E b \in BOOLEAN :
       /\ q = IF b THEN newBoundedRingBufferQueue(reqCap)
                  ELSE newUnboundedRingBufferQueue(reqCap)
       /\ twin = IF b THEN newUnboundedRingBufferQueue(reqCap)
                     ELSE newBoundedRingBufferQueue(reqCap)
  /\ panicked = FALSE
  /\ pushed = <<>>
  /\ popped = <<>>
  /\ mixed = FALSE
  /\ last = NoCall(q)
  /\ prev = NoCall(q)
  /\ twinLast = NoCall(twin)
  /\ synced = TRUE

\* one call of each method on q
PushCall ==
  /\ ~panicked
  /\ Len(pushed) < MaxPush
  /\ \E item \in Element :
       LET r == Push(q, item)
       IN  /\ q' = r.q
           /\ panicked' = r.panic
           /\ pushed' = IF r.err = ErrNil /\ ~r.panic THEN Append(pushed, item) ELSE pushed
           /\ mixed' = (mixed \/ (r.err = ErrNil /\ ~r.panic /\ Len(popped) > 0))
           /\ last' = Call("Push", item, ZeroElement, r.err, q)
  /\ prev' = last
  /\ UNCHANGED <<reqCap, popped>>

PopCall ==
  /\ ~panicked
  /\ LET r == Pop(q)
     IN  /\ q' = r.q
         /\ panicked' = r.panic
         /\ popped' = IF r.err = ErrNil /\ ~r.panic THEN Append(popped, r.item) ELSE popped
         /\ last' = Call("Pop", ZeroElement, r.item, r.err, q)
  /\ prev' = last
  /\ UNCHANGED <<reqCap, pushed, mixed>>

PeekCall ==
  /\ ~panicked
  /\ LET r == Peek(q)
     IN  /\ panicked' = r.panic
         /\ last' = Call("Peek", ZeroElement, r.item, r.err, q)
  /\ prev' = last
  /\ UNCHANGED <<q, reqCap, pushed, popped, mixed>>

LengthCall ==
  /\ ~panicked
  /\ last' = Call("Length", ZeroElement, Length(q), ErrNil, q)
  /\ prev' = last
  /\ UNCHANGED <<q, reqCap, panicked, pushed, popped, mixed>>

\* a client driving one queue
DoPush == PushCall /\ UNCHANGED twinVars

DoPop == PopCall /\ UNCHANGED twinVars

DoPeek == PeekCall /\ UNCHANGED twinVars

DoLength == LengthCall /\ UNCHANGED twinVars

Next == DoPush \/ DoPop \/ DoPeek \/ DoLength

Spec == Init /\ [][Next]_vars

\* ---- the two variants driven by the same calls ------------------------------------
\* what a call hands back to its caller: its error, or a panic
Outcome(r) == IF r.panic THEN "panic" ELSE r.err

\* s with the other overflow policy
Flip(s) == [s EXCEPT !.bounded = ~s.bounded]

\* each action issues the same call on q and on twin, until the first Push
\* issued with length = capacity has been made
TwinPush ==
  /\ synced
  /\ PushCall
  /\ LET r == Push(twin, last'.arg)
     IN  /\ twin' = r.q
         /\ twinLast' = Call("Push", last'.arg, ZeroElement, Outcome(r), twin)
  /\ synced' = (q.length # cap(q.items))

TwinPop ==
  /\ synced
  /\ PopCall
  /\ LET r == Pop(twin)
     IN  /\ twin' = r.q
         /\ twinLast' = Call("Pop", ZeroElement, r.item, Outcome(r), twin)
  /\ UNCHANGED synced

TwinPeek ==
  /\ synced
  /\ PeekCall
  /\ LET r == Peek(twin)
     IN  twinLast' = Call("Peek", ZeroElement, r.item, Outcome(r), twin)
  /\ UNCHANGED <<twin, synced>>

TwinLength ==
  /\ synced
  /\ LengthCall
  /\ twinLast' = Call("Length", ZeroElement, Length(twin), ErrNil, twin)
  /\ UNCHANGED <<twin, synced>>

NextTwin == TwinPush \/ TwinPop \/ TwinPeek \/ TwinLength

SpecTwin == Init /\ [][NextTwin]_vars

\* ---- derived notions used by the properties ----------------------------------
\* capacity a queue built with capacity argument c starts with
InitialCap == cap(newBoundedRingBufferQueue(reqCap).items)

\* the live elements of s, oldest first, read off the ring
LiveSeq(s) == [k \in 1..s.length |-> s.items[((s.front + k - 1) % cap(s.items)) + 1]]

\* the items successive Pop calls return from s until Pop fails
RECURSIVE Drain(_)
Drain(s) ==
  LET r == Pop(s)
  IN  IF r.err # ErrNil \/ r.panic THEN <<>> ELSE <<r.item>> \o Drain(r.q)

\* the items pushed successfully and not yet popped, oldest first
Outstanding == SubSeq(pushed, Len(popped) + 1, Len(pushed))

\* ---- properties ------------------------------------------------------------------

\* C1: FIFO order. While every successful Push has come before every
\* successful Pop (no Push after a Pop), the items popped so far are exactly
\* the first pushed items in push order, and Pop only fails once all pushed
\* items have been returned; bounded or unbounded, with or without growth.
C1_FifoNoInterveningPops ==
  ~mixed =>
    /\ Len(popped) <= Len(pushed)
    /\ popped = SubSeq(pushed, 1, Len(popped))
    /\ (last.op = "Pop" /\ last.err # ErrNil => Len(popped) = Len(pushed))

C1_Witness ==
  /\ ~mixed
  /\ ~q.bounded
  /\ cap(q.items) > InitialCap
  /\ Len(popped) >= 3
  /\ popped[1] # popped[2]
  /\ last.op = "Pop" /\ last.err = ErrNil

\* C2: Length accounting. Length() is the number of Pushes that returned nil
\* minus the number of Pops that returned nil and is never negative; a call
\* that failed, a Peek and a Length leave it alone; a successful Push adds
\* exactly one (also when it grows the queue), a successful Pop removes one.
C2_LengthAccounting ==
  /\ Length(q) = Len(pushed) - Len(popped)
  /\ Length(q) >= 0
  /\ (last.op = "Length" => last.val = Len(pushed) - Len(popped))
  /\ (last.op \in {"Peek", "Length"} \/ last.err # ErrNil
        => Length(q) = Length(last.pre))
  /\ (last.op = "Push" /\ last.err = ErrNil => Length(q) = Length(last.pre) + 1)
  /\ (last.op = "Pop" /\ last.err = ErrNil => Length(q) = Length(last.pre) - 1)

C2_Witness ==
  /\ last.op = "Length"
  /\ last.val >= 1
  /\ Len(popped) >= 1
  /\ Len(pushed) >= 3
  /\ cap(q.items) > InitialCap

\* C3: Bounded overflow. On a bounded queue built with capacity K >= 1 and
\* not popped from, a Push made after fewer than K successful Pushes returns
\* nil, and a Push made after K successful Pushes returns ErrQueueFull and
\* leaves length, front, capacity and storage as they were.
C3_BoundedOverflow ==
  (q.bounded /\ reqCap >= 1 /\ popped = <<>> /\ last.op = "Push") =>
    LET before == Len(pushed) - (IF last.err = ErrNil THEN 1 ELSE 0)
    IN  /\ before <= reqCap
        /\ (before < reqCap => last.err = ErrNil)
        /\ (before = reqCap => last.err = ErrQueueFull /\ q = last.pre)

C3_Witness ==
  /\ q.bounded
  /\ reqCap = 3
  /\ popped = <<>>
  /\ Len(pushed) = 3
  /\ last.op = "Push"
  /\ last.err = ErrQueueFull
  /\ last.arg # q.items[1]

\* C4: An unbounded queue never rejects a Push: every Push on it returns
\* nil without panicking, makes the length one larger and leaves the pushed
\* item as the newest live element.
C4_UnboundedNeverRejects ==
  (~q.bounded /\ last.op = "Push") =>
    /\ last.err = ErrNil
    /\ ~panicked
    /\ q.length = last.pre.length + 1
    /\ q.items[((q.front + q.length - 1) % cap(q.items)) + 1] = last.arg
    /\ pushed[Len(pushed)] = last.arg

C4_Witness ==
  /\ ~q.bounded
  /\ last.op = "Push"
  /\ last.pre.length = cap(last.pre.items)
  /\ last.pre.front > 0
  /\ cap(q.items) = 2 * cap(last.pre.items)

\* C5: Empty-queue contract. A queue nothing has been called on has length
\* 0, and a Pop or Peek called when the length is 0 returns ErrQueueEmpty
\* and leaves the whole struct as it was.
C5_EmptyQueueContract ==
  /\ (last.op = "none" => Length(q) = 0)
  /\ (last.op \in {"Pop", "Peek"} /\ last.pre.length = 0
        => last.err = ErrQueueEmpty /\ q = last.pre /\ q.length = 0)

C5_Witness ==
  /\ last.op = "Pop"
  /\ last.pre.length = 0
  /\ last.pre.front > 0
  /\ Len(popped) >= 2
  /\ prev.op = "Peek" /\ prev.err = ErrQueueEmpty
  /\ q.items[q.front + 1] # ZeroElement

\* C6: Peek idempotence. A Peek leaves the struct as it was; two Peeks in a
\* row return the same value and the same error; and a Pop right after a
\* successful Peek succeeds and returns the value that Peek returned.
C6_PeekIdempotent ==
  /\ (last.op = "Peek" => q = last.pre)
  /\ (prev.op = "Peek" /\ last.op = "Peek"
        => last.val = prev.val /\ last.err = prev.err)
  /\ (prev.op = "Peek" /\ prev.err = ErrNil /\ last.op = "Pop"
        => last.val = prev.val /\ last.err = ErrNil)

C6_Witness ==
  /\ prev.op = "Peek"
  /\ prev.err = ErrNil
  /\ prev.val # ZeroElement
  /\ prev.pre.front > 0
  /\ prev.pre.length >= 2
  /\ last.op = "Pop"
  /\ Peek(q).item # prev.val

\* C7 as stated: a successful Push(x) immediately followed by Pop returns x
\* with no error, whatever the queue held before the Push.
C7_RoundTripAnyState ==
  (prev.op = "Push" /\ prev.err = ErrNil /\ last.op = "Pop") =>
    (last.err = ErrNil /\ last.val = prev.arg)

\* C7 amended: a successful Push(x) on an empty queue immediately followed
\* by Pop returns x with no error, for every x including the zero value.
C7_RoundTripFromEmpty ==
  (prev.op = "Push" /\ prev.err = ErrNil /\ prev.pre.length = 0 /\ last.op = "Pop") =>
    (last.err = ErrNil /\ last.val = prev.arg)

C7_Witness ==
  /\ prev.op = "Push"
  /\ prev.err = ErrNil
  /\ prev.pre.length = 0
  /\ prev.pre.front > 0
  /\ prev.arg = ZeroElement
  /\ prev.pre.items[prev.pre.front + 1] # ZeroElement
  /\ last.op = "Pop"

\* C8: Recovery from empty. A Push(x) called when the length is 0 returns
\* nil; a Peek right after it returns x with no error, and the Pop after
\* that Peek returns x with no error and empties the queue; a Pop right
\* after the Push returns x with no error and leaves the queue empty.
C8_RecoveryFromEmpty ==
  /\ (last.op = "Push" /\ last.pre.length = 0 => last.err = ErrNil /\ ~panicked)
  /\ (prev.op = "Push" /\ prev.pre.length = 0 /\ last.op = "Peek"
        => /\ last.err = ErrNil /\ last.val = prev.arg /\ ~panicked
           /\ Pop(q).err = ErrNil /\ Pop(q).item = prev.arg /\ ~Pop(q).panic
           /\ Pop(q).q.length = 0)
  /\ (prev.op = "Push" /\ prev.pre.length = 0 /\ last.op = "Pop"
        => last.err = ErrNil /\ last.val = prev.arg /\ q.length = 0 /\ ~panicked)

C8_Witness ==
  /\ cap(q.items) = 1
  /\ Len(popped) >= 2
  /\ prev.op = "Push"
  /\ prev.pre.length = 0
  /\ prev.arg # prev.pre.items[1]
  /\ last.op = "Peek"

\* C9: Growth with wraparound keeps order. Right after a Push that grew an
\* unbounded queue whose front was non-zero, the Pops that follow return the
\* elements that were live before the growth in push order, then the pushed
\* item, and the ring holds them in that order.
C9_WrappedGrowthKeepsOrder ==
  (~q.bounded /\ last.op = "Push" /\ last.pre.length = cap(last.pre.items)
     /\ last.pre.front > 0) =>
    /\ Drain(q) = Append(LiveSeq(last.pre), last.arg)
    /\ Drain(q) = Outstanding
    /\ Len(Drain(q)) = cap(last.pre.items) + 1

C9_Witness ==
  /\ ~q.bounded
  /\ last.op = "Push"
  /\ last.pre.length = cap(last.pre.items)
  /\ cap(last.pre.items) = 3
  /\ last.pre.front > 0
  /\ Drain(q)[1] # Drain(q)[2]
  /\ Drain(q)[3] # Drain(q)[4]

\* C10: Capacity is monotone. Over every call the capacity stays the same
\* or becomes exactly twice what it was, so it never decreases; the capacity
\* of a bounded queue is the one it was constructed with.
C10_CapacityMonotone ==
  /\ cap(q.items) >= cap(last.pre.items)
  /\ (cap(q.items) # cap(last.pre.items) => cap(q.items) = 2 * cap(last.pre.items))
  /\ cap(last.pre.items) >= cap(prev.pre.items)
  /\ (q.bounded => cap(q.items) = InitialCap /\ cap(last.pre.items) = InitialCap)
  /\ q.bounded = last.pre.bounded

C10_Witness ==
  /\ ~q.bounded
  /\ InitialCap = 2
  /\ cap(q.items) = 4 * InitialCap
  /\ cap(last.pre.items) = 2 * InitialCap
  /\ last.op = "Push"

\* C11: Default capacity. A queue built with capacity 0 has capacity 2: a
\* bounded one takes exactly two Pushes and rejects the third with
\* ErrQueueFull, an unbounded one keeps capacity 2 for two Pushes and grows
\* to 4 on the third; and the capacity of a queue is at least 1 in every
\* state, whatever capacity >= 0 was requested.
C11_DefaultCapacity ==
  /\ cap(q.items) >= 1
  /\ (reqCap = 0 /\ last.op = "none"
        => cap(q.items) = 2 /\ cap(q.items) = defaultRingBufferQueueCapacity)
  /\ (reqCap = 0 /\ q.bounded /\ popped = <<>> /\ last.op = "Push" =>
        LET before == Len(pushed) - (IF last.err = ErrNil THEN 1 ELSE 0)
        IN  /\ before <= 2
            /\ (before < 2 => last.err = ErrNil)
            /\ (before = 2 => last.err = ErrQueueFull))
  /\ (reqCap = 0 /\ ~q.bounded /\ popped = <<>> /\ last.op = "Push" =>
        /\ (Len(pushed) <= 2 => cap(last.pre.items) = 2 /\ cap(q.items) = 2)
        /\ (Len(pushed) = 3 => cap(last.pre.items) = 2 /\ cap(q.items) = 4))

C11_Witness ==
  /\ reqCap = 0
  /\ q.bounded
  /\ popped = <<>>
  /\ Len(pushed) = 2
  /\ last.op = "Push"
  /\ last.err = ErrQueueFull
  /\ prev.op = "Push"
  /\ prev.err = ErrNil

\* C12: Bounded Push succeeds exactly when there is room. On a bounded
\* queue a Push returns ErrQueueFull if and only if length = capacity when
\* it is called, and nil otherwise; after a rejected Push one successful Pop
\* makes the next Push succeed; a Push right after a rejected Push is
\* rejected again; and however many Pushes succeed over time, the items
\* popped are the first pushed items in push order.
C12_BoundedPushIffRoom ==
  q.bounded =>
    /\ (last.op = "Push" =>
          /\ last.err \in {ErrNil, ErrQueueFull}
          /\ (last.err = ErrQueueFull <=> last.pre.length = cap(last.pre.items)))
    /\ \A x \in Element :
         (Push(q, x).err = ErrQueueFull <=> q.length = cap(q.items))
    /\ (prev.op = "Push" /\ prev.err = ErrQueueFull /\ last.op = "Pop" =>
          /\ last.err = ErrNil
          /\ \A x \in Element : Push(q, x).err = ErrNil)
    /\ (prev.op = "Pop" /\ prev.err = ErrNil /\ last.op = "Push" => last.err = ErrNil)
    /\ (prev.op = "Push" /\ prev.err = ErrQueueFull /\ last.op = "Push"
          => last.err = ErrQueueFull)
    /\ popped = SubSeq(pushed, 1, Len(popped))

C12_Witness ==
  /\ q.bounded
  /\ prev.op = "Pop"
  /\ prev.err = ErrNil
  /\ prev.pre.length = cap(prev.pre.items)
  /\ last.op = "Push"
  /\ last.err = ErrNil
  /\ Len(pushed) > cap(q.items)
  /\ Len(popped) >= 2
  /\ popped[1] # popped[2]

\* C14: Representation invariant. For every k below length, the slot
\* (front + k) mod capacity holds the k-th oldest item pushed and not yet
\* popped: the live range read off the ring from front is exactly the
\* outstanding items in push order.
C14_RepresentationInvariant ==
  /\ q.length = Len(Outstanding)
  /\ \A k \in 0..(q.length - 1) :
       q.items[((q.front + k) % cap(q.items)) + 1] = Outstanding[k + 1]

C14_Witness ==
  /\ q.front + q.length > cap(q.items)
  /\ q.length >= 2
  /\ cap(q.items) > InitialCap
  /\ LiveSeq(q)[1] # LiveSeq(q)[q.length]

\* C15: Index bounds. In every state 0 <= length <= capacity and
\* 0 <= front < capacity.
C15_IndexBounds ==
  /\ 0 <= q.length
  /\ q.length <= cap(q.items)
  /\ 0 <= q.front
  /\ q.front < cap(q.items)

C15_Witness ==
  /\ q.length = 0
  /\ q.front > 0
  /\ cap(q.items) > InitialCap
  /\ last.op = "Pop"
  /\ last.err = ErrNil

\* C16: Growth step postcondition. After a Push(item) on an unbounded queue
\* called with length = capacity = C and front = f: capacity = 2*C,
\* front = 0, length = C+1, slot i of the new storage holds old slot
\* (f + i) mod C for every i < C (the tail old[f..C) first, the head
\* old[0..f) right after it), and slot C holds item.
C16_GrowthPostcondition ==
  (~q.bounded /\ last.op = "Push" /\ last.pre.length = cap(last.pre.items)) =>
    LET C == cap(last.pre.items)
        f == last.pre.front
        old == last.pre.items
    IN  /\ cap(q.items) = 2 * C
        /\ q.front = 0
        /\ q.length = C + 1
        /\ \A i \in 0..(C - 1) : q.items[i + 1] = old[((f + i) % C) + 1]
        /\ \A i \in 0..(C - f - 1) : q.items[i + 1] = old[f + i + 1]
        /\ \A j \in 0..(f - 1) : q.items[C - f + j + 1] = old[j + 1]
        /\ q.items[C + 1] = last.arg

C16_Witness ==
  /\ ~q.bounded
  /\ last.op = "Push"
  /\ last.pre.length = cap(last.pre.items)
  /\ cap(last.pre.items) = 3
  /\ last.pre.front = 1
  /\ last.pre.items[1] # last.pre.items[2]
  /\ last.arg # ZeroElement

\* C17: Growth is lazy. The capacity changes only in a Push on an unbounded
\* queue called with length = capacity; a Push called with length below
\* capacity keeps capacity and front; Pop, Peek and Length keep the capacity
\* and the storage, so a queue filled to capacity keeps its capacity until
\* the next Push.
C17_GrowthIsLazy ==
  /\ (cap(q.items) # cap(last.pre.items) =>
        /\ last.op = "Push"
        /\ ~last.pre.bounded
        /\ last.pre.length = cap(last.pre.items))
  /\ (last.op = "Push" /\ last.pre.length < cap(last.pre.items) =>
        /\ cap(q.items) = cap(last.pre.items)
        /\ q.front = last.pre.front)
  /\ (last.op \in {"Pop", "Peek", "Length"} => q.items = last.pre.items)
  /\ (q.front # last.pre.front =>
        \/ last.op = "Pop" /\ last.err = ErrNil
        \/ last.op = "Push" /\ last.pre.length = cap(last.pre.items))

C17_Witness ==
  /\ ~q.bounded
  /\ cap(q.items) > InitialCap
  /\ prev.op = "Push"
  /\ prev.pre.length = cap(prev.pre.items) - 1
  /\ last.op = "Pop"
  /\ last.pre.length = cap(last.pre.items)
  /\ cap(q.items) = cap(prev.pre.items)

\* C18: Zero value on empty. When Pop or Peek returns ErrQueueEmpty, the
\* element returned with it is the zero value, also when the slot at front
\* still holds a stale non-zero value.
C18_ZeroValueOnEmpty ==
  (last.op \in {"Pop", "Peek"} /\ last.err = ErrQueueEmpty) =>
    /\ last.val = ZeroElement
    /\ last.pre.length = 0

C18_Witness ==
  /\ last.op = "Peek"
  /\ last.err = ErrQueueEmpty
  /\ q.items[q.front + 1] # ZeroElement
  /\ prev.op = "Pop"
  /\ prev.err = ErrNil
  /\ prev.val # ZeroElement

\* C19: The queue refines an abstract FIFO sequence under every
\* interleaving: the items popped are always the first pushed items in push
\* order, a successful Pop or Peek returns the oldest outstanding item and
\* fails only when none is outstanding, a successful Push appends at the
\* back, and Length is the number of outstanding items.
C19_RefinesFifo ==
  /\ Len(popped) <= Len(pushed)
  /\ popped = SubSeq(pushed, 1, Len(popped))
  /\ Length(q) = Len(Outstanding)
  /\ Drain(q) = Outstanding
  /\ (last.op = "Pop" /\ last.err = ErrNil => last.val = pushed[Len(popped)])
  /\ (last.op = "Pop" /\ last.err # ErrNil => Outstanding = <<>>)
  /\ (last.op = "Peek" /\ last.err = ErrNil
        => Outstanding # <<>> /\ last.val = Outstanding[1])
  /\ (last.op = "Peek" /\ last.err # ErrNil => Outstanding = <<>>)
  /\ (last.op = "Push" /\ last.err = ErrNil
        => Drain(q) = Append(Drain(last.pre), last.arg))

C19_Witness ==
  /\ mixed
  /\ cap(q.items) > InitialCap
  /\ q.front + q.length > cap(q.items)
  /\ Len(popped) >= 2
  /\ prev.op = "Push"
  /\ prev.err = ErrNil
  /\ last.op = "Pop"
  /\ last.err = ErrNil
  /\ last.val # Peek(q).item

\* C20: No out-of-range access. No call panics; front and the slot Push
\* writes are inside [0, capacity); whenever expand can be entered (an
\* unbounded queue with length = capacity) its slice items[front:length] is
\* legal and equals items[front:capacity], its early return is not taken,
\* and the two copies fit into the new storage.
C20_NoOutOfRange ==
  /\ ~panicked
  /\ 0 <= q.front /\ q.front < cap(q.items)
  /\ LET back == (q.front + q.length) % cap(q.items)
     IN  0 <= back /\ back < cap(q.items)
  /\ ~Peek(q).panic
  /\ ~Pop(q).panic
  /\ \A x \in Element : ~Push(q, x).panic
  /\ (~q.bounded /\ q.length = cap(q.items) =>
        /\ q.front <= q.length
        /\ SliceOK(q.items, q.front, q.length)
        /\ SliceOK(q.items, 0, q.front)
        /\ Slice(q.items, q.front, q.length) = Slice(q.items, q.front, cap(q.items))
        /\ Len(Slice(q.items, q.front, q.length)) + Len(Slice(q.items, 0, q.front))
             <= 2 * cap(q.items)
        /\ ~expand(q).panic
        /\ cap(expand(q).q.items) = 2 * cap(q.items))
  /\ (last.op = "Push" /\ cap(q.items) # cap(last.pre.items)
        => last.pre.length = cap(last.pre.items))

C20_Witness ==
  /\ ~panicked
  /\ ~q.bounded
  /\ last.op = "Push"
  /\ last.pre.length = cap(last.pre.items)
  /\ last.pre.front = cap(last.pre.items) - 1
  /\ last.pre.front > 0
  /\ cap(q.items) = 2 * cap(last.pre.items)

\* C13: Bounded and unbounded queues differ only in the overflow branch.
\* With the same calls issued on a bounded queue of capacity K and on an
\* unbounded queue of initial capacity K, until a Push is issued with
\* length = K every call returns the same value and the same error in both
\* and both hold the same front, length and storage; at that Push the two
\* were still equal, the bounded one returns ErrQueueFull and stays as it
\* was, and the unbounded one returns nil and doubles its capacity.
C13_SameUntilOverflow ==
  /\ (synced =>
        /\ twin = Flip(q)
        /\ twinLast.op = last.op
        /\ twinLast.arg = last.arg
        /\ twinLast.val = last.val
        /\ twinLast.err = last.err
        /\ twinLast.pre = Flip(last.pre)
        /\ cap(q.items) = InitialCap)
  /\ (~synced =>
        LET b == IF q.bounded THEN last ELSE twinLast
            u == IF q.bounded THEN twinLast ELSE last
            bq == IF q.bounded THEN q ELSE twin
            uq == IF q.bounded THEN twin ELSE q
        IN  /\ b.op = "Push" /\ u.op = "Push" /\ b.arg = u.arg
            /\ b.pre.length = InitialCap /\ cap(b.pre.items) = InitialCap
            /\ u.pre = Flip(b.pre)
            /\ b.err = ErrQueueFull
            /\ bq = b.pre
            /\ u.err = ErrNil
            /\ cap(uq.items) = 2 * InitialCap
            /\ uq.length = InitialCap + 1)

C13_Witness ==
  /\ synced
  /\ q.length = cap(q.items)
  /\ q.front > 0
  /\ Len(popped) >= 2
  /\ prev.op = "Pop"
  /\ prev.val # ZeroElement
  /\ last.op = "Push"
  /\ twinLast.op = "Push"
  /\ twinLast.err = ErrNil
  /\ cap(twin.items) = 3

====
